---- MODULE Spec2Model ----
(***************************************************************************)
(* A model of the two translation-structure tools of the repository:       *)
(*   sync_fix.py          (the fixer: sync_file, main)                     *)
(*   sync_translations.py (the reporter: analyze_structure,                *)
(*                         generate_report, main)                          *)
(*                                                                         *)
(* A Python str is modelled as a sequence of one-character strings; a file *)
(* content is such a sequence and may hold the newline character NL.  The  *)
(* file system is a function from paths to contents (or Absent).           *)
(***************************************************************************)
EXTENDS Integers, Sequences, FiniteSets, TLC

VARIABLES
    fs,             \* the file system: path -> content, or Absent
    fs0,            \* history: the file system when the current invocation began
    io_may_fail,    \* environment: whether an I/O call of this scenario may raise
    todo,           \* the command lines the user still has to run
    pc,             \* where the running process is
    tool,           \* "fix" (sync_fix.py) or "report" (sync_translations.py)
    dry_run,        \* sync_fix.main: '--apply' not in sys.argv
    queue,          \* the id_files the for loop of main has still to visit
    cur,            \* the id_file being processed
    stats,          \* main's stats dictionary
    console,        \* what was printed, as a sequence of tagged messages
    exit_status,    \* the exit status of the last process that ended
    id_parsed,      \* sync_file locals ...
    en_parsed,
    en_fm,
    id_idx,
    en_idx,
    new_en_lines,
    changes_made,
    matched,        \* history: per emitted line, the 1-based position of the
                    \* source record it was matched with (0: copied through)
    last_gen        \* what the last generate_report call worked on and returned

vars == <<fs, fs0, io_may_fail, todo, pc, tool, dry_run, queue, cur, stats,
          console, exit_status, id_parsed, en_parsed, en_fm, id_idx, en_idx,
          new_en_lines, changes_made, matched, last_gen>>

-----------------------------------------------------------------------------
(* Characters and strings                                                  *)

NL == "\n"
TAB == "\t"
\* The backtick of a code fence (the character itself cannot be written in a
\* string of this language).
BACKTICK == "bq"

\* The characters Python's \s and str.strip() treat as whitespace, as far as
\* they occur in the model's alphabets.
Whitespace == {" ", TAB, NL}
\* \d
Digits == {"0", "1", "2", "3", "4", "5", "6", "7", "8", "9"}
\* [\*\-\+]
BulletGlyphs == {"*", "-", "+"}
\* [\*\-_]
RuleGlyphs == {"*", "-", "_"}

EMPTY == <<>>
DELIM == <<"-", "-", "-">>
FENCE == <<BACKTICK, BACKTICK, BACKTICK>>
IMPORT == <<"i", "m", "p", "o", "r", "t", " ">>

\* The number of leading characters of s that lie in S (a greedy S*).
LeadCount(s, S) ==
    CHOOSE k \in 0..Len(s) :
        /\ \A i \in 1..k : s[i] \in S
        /\ (k = Len(s) \/ s[k + 1] \notin S)

\* The number of trailing characters of s that lie in S.
TrailCount(s, S) ==
    CHOOSE k \in 0..Len(s) :
        /\ \A i \in (Len(s) - k + 1)..Len(s) : s[i] \in S
        /\ (k = Len(s) \/ s[Len(s) - k] \notin S)

\* s[k:]
Drop(s, k) == SubSeq(s, k + 1, Len(s))

\* c * n
Rep(c, n) == [i \in 1..n |-> c]

\* str.strip()
Strip(s) ==
    LET a == LeadCount(s, Whitespace)
    IN  IF a = Len(s) THEN EMPTY
        ELSE SubSeq(s, a + 1, Len(s) - TrailCount(s, Whitespace))

\* str.startswith(p)
StartsWith(s, p) == Len(s) >= Len(p) /\ SubSeq(s, 1, Len(p)) = p

\* content.split('\n'): always at least one line
RECURSIVE Split(_)
Split(s) ==
    IF \A i \in 1..Len(s) : s[i] # NL THEN <<s>>
    ELSE LET k == CHOOSE i \in 1..Len(s) :
                      s[i] = NL /\ \A j \in 1..(i - 1) : s[j] # NL
         IN  <<SubSeq(s, 1, k - 1)>> \o Split(Drop(s, k))

\* '\n'.join(lines)
RECURSIVE Join(_)
Join(lines) ==
    IF lines = <<>> THEN EMPTY
    ELSE IF Len(lines) = 1 THEN lines[1]
    ELSE lines[1] \o <<NL>> \o Join(Tail(lines))

-----------------------------------------------------------------------------
(* The three line patterns, shared by parse_line and analyze_structure     *)

\* \s+(.+)$ applied to what follows a marker.  \s+ is greedy and gives back
\* one character when nothing else is left for (.+); '.' matches any
\* character but the newline.
SpaceThenText(rest) ==
    LET w == LeadCount(rest, Whitespace)
        text == IF w < Len(rest) THEN Drop(rest, w) ELSE <<rest[w]>>
    IN  IF w = 0 \/ (w = Len(rest) /\ w < 2)
        THEN [ok |-> FALSE, text |-> EMPTY]
        ELSE IF \E i \in 1..Len(text) : text[i] = NL
        THEN [ok |-> FALSE, text |-> EMPTY]
        ELSE [ok |-> TRUE, text |-> text]

\* re.match(r'^(#{1,6})\s+(.+)$', line)
HeadingMatch(line) ==
    LET h == LeadCount(line, {"#"})
        t == SpaceThenText(Drop(line, h))
    IN  IF h \in 1..6 /\ t.ok
        THEN [ok |-> TRUE, hashes |-> h, text |-> t.text]
        ELSE [ok |-> FALSE, hashes |-> 0, text |-> EMPTY]

\* re.match(r'^(\s*)(\d+)\.\s+(.+)$', line)
NumberedMatch(line) ==
    LET i == LeadCount(line, Whitespace)
        r1 == Drop(line, i)
        d == LeadCount(r1, Digits)
        r2 == Drop(r1, d)
        t == IF r2 # <<>> /\ r2[1] = "." THEN SpaceThenText(Tail(r2))
             ELSE [ok |-> FALSE, text |-> EMPTY]
    IN  IF d >= 1 /\ t.ok
        THEN [ok |-> TRUE, indent |-> SubSeq(line, 1, i),
              number |-> SubSeq(r1, 1, d), text |-> t.text]
        ELSE [ok |-> FALSE, indent |-> EMPTY, number |-> EMPTY, text |-> EMPTY]

\* re.match(r'^(\s*)([\*\-\+])\s+(.+)$', line)
BulletMatch(line) ==
    LET i == LeadCount(line, Whitespace)
        r1 == Drop(line, i)
        t == IF r1 # <<>> /\ r1[1] \in BulletGlyphs THEN SpaceThenText(Tail(r1))
             ELSE [ok |-> FALSE, text |-> EMPTY]
    IN  IF t.ok
        THEN [ok |-> TRUE, indent |-> SubSeq(line, 1, i),
              bullet |-> r1[1], text |-> t.text]
        ELSE [ok |-> FALSE, indent |-> EMPTY, bullet |-> "", text |-> EMPTY]

-----------------------------------------------------------------------------
(* sync_fix.py: parse_line                                                 *)

parse_line(line) ==
    LET heading_match == HeadingMatch(line)
        numbered_match == NumberedMatch(line)
        bullet_match == BulletMatch(line)
    IN  IF heading_match.ok
        THEN [type |-> "heading", level |-> heading_match.hashes,
              text |-> heading_match.text, original |-> line]
        ELSE IF numbered_match.ok
        THEN [type |-> "numbered_list", indent |-> Len(numbered_match.indent),
              number |-> numbered_match.number, text |-> numbered_match.text,
              original |-> line]
        ELSE IF bullet_match.ok
        THEN [type |-> "bullet_list", indent |-> Len(bullet_match.indent),
              bullet |-> bullet_match.bullet, text |-> bullet_match.text,
              original |-> line]
        ELSE [type |-> "other", original |-> line]

-----------------------------------------------------------------------------
(* extract_frontmatter (the same code in both files)                       *)

\* The for loop of lines 95-100: i is the 0-based index the loop is at,
\* frontmatter_lines and body_start its variables.
RECURSIVE FrontmatterLoop(_, _, _, _)
FrontmatterLoop(lines, i, frontmatter_lines, body_start) ==
    IF i >= Len(lines)
    THEN [frontmatter_lines |-> frontmatter_lines, body_start |-> body_start]
    ELSE IF Strip(lines[i + 1]) = DELIM
    THEN [frontmatter_lines |-> Append(frontmatter_lines, DELIM),
          body_start |-> i + 1]
    ELSE FrontmatterLoop(lines, i + 1, Append(frontmatter_lines, lines[i + 1]),
                         body_start)

extract_frontmatter(content) ==
    LET lines == Split(content)
    IN  IF Strip(lines[1]) # DELIM
        THEN [frontmatter |-> EMPTY, body |-> content]
        ELSE LET r == FrontmatterLoop(lines, 1, <<DELIM>>, 1)
             IN  [frontmatter |-> Join(r.frontmatter_lines),
                  body |-> Join(Drop(lines, r.body_start))]

-----------------------------------------------------------------------------
(* sync_translations.py: analyze_structure                                 *)

\* re.match(r'^[\*\-_]{3,}$', line.strip())
IsRule(line) ==
    LET s == Strip(line)
    IN  Len(s) >= 3 /\ \A i \in 1..Len(s) : s[i] \in RuleGlyphs

\* The record appended for line number i (0-based) outside a code block:
\* lines 150-219.
StructureRecord(i, line) ==
    LET heading_match == HeadingMatch(line)
        numbered_match == NumberedMatch(line)
        bullet_match == BulletMatch(line)
    IN  IF heading_match.ok
        THEN [type |-> "heading", line |-> i, level |-> heading_match.hashes,
              text |-> heading_match.text, content |-> line]
        ELSE IF numbered_match.ok
        THEN [type |-> "numbered_list", line |-> i,
              indent |-> Len(numbered_match.indent),
              number |-> numbered_match.number, text |-> numbered_match.text,
              content |-> line]
        ELSE IF bullet_match.ok
        THEN [type |-> "bullet_list", line |-> i,
              indent |-> Len(bullet_match.indent),
              bullet |-> bullet_match.bullet, text |-> bullet_match.text,
              content |-> line]
        ELSE IF StartsWith(Strip(line), IMPORT)
        THEN [type |-> "import", line |-> i, content |-> line]
        ELSE IF IsRule(line)
        THEN [type |-> "hr", line |-> i, content |-> line]
        ELSE [type |-> "text", line |-> i, content |-> line]

\* The for loop of lines 121-219: i is the 0-based line number the loop is
\* at, in_code_block and structure its variables.
RECURSIVE AnalyzeLoop(_, _, _, _)
AnalyzeLoop(lines, i, in_code_block, structure) ==
    IF i >= Len(lines) THEN structure
    ELSE LET line == lines[i + 1]
         IN  IF StartsWith(Strip(line), FENCE)
             THEN IF ~in_code_block
                  THEN AnalyzeLoop(lines, i + 1, TRUE,
                           Append(structure,
                               [type |-> "code_block_start", line |-> i,
                                content |-> line,
                                lang |-> Strip(Drop(Strip(line), 3))]))
                  ELSE AnalyzeLoop(lines, i + 1, FALSE,
                           Append(structure,
                               [type |-> "code_block_end", line |-> i,
                                content |-> line]))
             ELSE IF in_code_block
             THEN AnalyzeLoop(lines, i + 1, TRUE,
                      Append(structure,
                          [type |-> "code_block_content", line |-> i,
                           content |-> line]))
             ELSE AnalyzeLoop(lines, i + 1, FALSE,
                      Append(structure, StructureRecord(i, line)))

analyze_structure(content) == AnalyzeLoop(Split(content), 0, FALSE, <<>>)

-----------------------------------------------------------------------------
(* Paths                                                                   *)

\* An excerpt of PATH_MAPPING: two source names that map to one target name.
\* A name that is no key of it ("faq") maps to itself.
PATH_MAPPING == [ditugaskan |-> "assigned", penugasan |-> "assigned"]

\* The names (stems of the .mdx files) the model's source tree may hold, in
\* the order sorted() gives them.
IdNames == <<"ditugaskan", "faq", "penugasan">>

Range(f) == {f[i] : i \in DOMAIN f}

IdFile(name) == [dir |-> "id", name |-> name, suffix |-> ".mdx"]

\* get_en_path, for a relative path of one part, and en_dir / en_rel_path
get_en_path(name) ==
    IF name \in DOMAIN PATH_MAPPING THEN PATH_MAPPING[name] ELSE name

EnFile(id_name) == [dir |-> "en", name |-> get_en_path(id_name), suffix |-> ".mdx"]

\* en_file.with_suffix('.mdx.bak')
BackupPath(en_file) == [en_file EXCEPT !.suffix = ".mdx.bak"]

AllPaths ==
    {IdFile(n) : n \in Range(IdNames)}
        \cup {EnFile(n) : n \in Range(IdNames)}
        \cup {BackupPath(EnFile(n)) : n \in Range(IdNames)}

Absent == [exists |-> FALSE]
File(content) == [exists |-> TRUE, content |-> content]

\* sorted(id_dir.rglob('*.mdx'))
id_files(f) == SelectSeq(IdNames, LAMBDA n : f[IdFile(n)].exists)

-----------------------------------------------------------------------------
(* sync_fix.py: sync_file, lines 170-227                                   *)

\* FixedLine with the target's own level/indent written back.
FixedLineOwnDepth(id_item, en_item) ==
    IF en_item.type = "heading"
    THEN Rep("#", en_item.level) \o <<" ">> \o en_item.text
    ELSE IF en_item.type = "numbered_list"
    THEN Rep(" ", en_item.indent) \o en_item.number \o <<".", " ">> \o en_item.text
    ELSE Rep(" ", en_item.indent) \o <<en_item.bullet, " ">> \o en_item.text

\* The replacement line of a matched pair whose level/indent differ:
\* lines 182, 195-196 and 208-209.
FixedLine(id_item, en_item) ==
    IF en_item.type = "heading"
    THEN Rep("#", id_item.level) \o <<" ">> \o en_item.text
    ELSE IF en_item.type = "numbered_list"
    THEN Rep(" ", id_item.indent) \o en_item.number \o <<".", " ">> \o en_item.text
    ELSE Rep(" ", id_item.indent) \o <<en_item.bullet, " ">> \o en_item.text

\* Whether the pair takes one of the three matching branches (lines 179,
\* 192, 205).
IsMatchedPair(id_item, en_item) ==
    /\ id_item.type = en_item.type
    /\ id_item.type \in {"heading", "numbered_list", "bullet_list"}

\* Whether a matched pair differs in what is compared (lines 180, 193, 206).
Differs(id_item, en_item) ==
    IF id_item.type = "heading" THEN id_item.level # en_item.level
    ELSE id_item.indent # en_item.indent

\* WalkIteration with id_idx advanced in every branch.
WalkIterationAlwaysAdvance(id_item, en_item) ==
    IF IsMatchedPair(id_item, en_item) /\ Differs(id_item, en_item)
    THEN [line |-> FixedLine(id_item, en_item), changed |-> TRUE,
          id_advance |-> TRUE]
    ELSE [line |-> en_item.original, changed |-> FALSE, id_advance |-> TRUE]

\* One iteration of the first while loop (lines 175-222): the line appended,
\* whether changes_made is set, and whether id_idx advances.
WalkIteration(id_item, en_item) ==
    IF IsMatchedPair(id_item, en_item)
    THEN IF Differs(id_item, en_item)
         THEN [line |-> FixedLine(id_item, en_item), changed |-> TRUE,
               id_advance |-> TRUE]
         ELSE [line |-> en_item.original, changed |-> FALSE, id_advance |-> TRUE]
    ELSE [line |-> en_item.original, changed |-> FALSE,
          id_advance |-> (id_item.type = en_item.type)]

\* new_content, line 230
NewContent(fm, lines) == fm \o <<NL>> \o Join(lines)

\* ShouldWrite without the dry_run test.
ShouldWriteAlways(changes, dry) == changes

\* Whether the files are touched: lines 229 and 232
ShouldWrite(changes, dry) == changes /\ ~dry

\* FixBucket without the second en_file.exists() test.
FixBucketNoExists(result, en_exists) ==
    IF result THEN "updated" ELSE "no_change"

\* The bucket main counts a file in: lines 286-291
FixBucket(result, en_exists) ==
    IF result THEN "updated"
    ELSE IF ~en_exists THEN "skipped"
    ELSE "no_change"

-----------------------------------------------------------------------------
(* sync_translations.py: generate_report, lines 243-285                    *)

Min(a, b) == IF a < b THEN a ELSE b

OfType(structure, types) == SelectSeq(structure, LAMBDA r : r.type \in types)

\* The positions of zip(id_headings, en_headings) whose levels differ
\* (lines 263-264), in order
LevelMismatches(a, b) ==
    SelectSeq([i \in 1..Min(Len(a), Len(b)) |-> i],
              LAMBDA i : a[i].level # b[i].level)

\* The positions of zip(id_lists, en_lists) whose indents differ (lines
\* 277-278), in order
IndentMismatches(a, b) ==
    SelectSeq([i \in 1..Min(Len(a), Len(b)) |-> i],
              LAMBDA i : a[i].indent # b[i].indent)

\* report_lines after the first line, and has_issues
ReportOf(id_structure, en_structure) ==
    LET id_headings == OfType(id_structure, {"heading"})
        en_headings == OfType(en_structure, {"heading"})
        id_lists == OfType(id_structure, {"numbered_list", "bullet_list"})
        en_lists == OfType(en_structure, {"numbered_list", "bullet_list"})
        count_h == IF Len(id_headings) # Len(en_headings)
                   THEN <<"WARNING Headings mismatch", Len(id_headings),
                          Len(en_headings)>>
                   ELSE <<"OK Headings", Len(id_headings)>>
        bad_h == LevelMismatches(id_headings, en_headings)
        level_w == [k \in 1..Len(bad_h) |->
                       <<"WARNING Heading level mismatch", bad_h[k],
                         id_headings[bad_h[k]].level,
                         en_headings[bad_h[k]].level>>]
        count_l == IF Len(id_lists) # Len(en_lists)
                   THEN <<"WARNING List items mismatch", Len(id_lists),
                          Len(en_lists)>>
                   ELSE <<"OK List items", Len(id_lists)>>
        indent_mismatches == Len(IndentMismatches(id_lists, en_lists))
        indent_w == IF indent_mismatches > 0
                    THEN << <<"WARNING different indentation",
                              indent_mismatches>> >>
                    ELSE <<>>
    IN  [lines |-> <<count_h>> \o level_w \o <<count_l>> \o indent_w,
         has_issues |-> \/ Len(id_headings) # Len(en_headings)
                        \/ Len(bad_h) > 0
                        \/ Len(id_lists) # Len(en_lists)
                        \/ indent_mismatches > 0]

\* The bucket main counts a file in: lines 326-333
ReportBucket(has_issues, en_exists) ==
    IF ~en_exists THEN "missing"
    ELSE IF has_issues THEN "mismatched"
    ELSE "matched"

-----------------------------------------------------------------------------
(* The processes                                                           *)

\* A command line: the script and its arguments (sys.argv[1:])
FixDry == [tool |-> "sync_fix", argv |-> <<>>]
FixApply == [tool |-> "sync_fix", argv |-> <<"--apply">>]
FixOther == [tool |-> "sync_fix", argv |-> <<"--force">>]
Report == [tool |-> "sync_translations", argv |-> <<>>]

NoFile == "-"

NoLocals ==
    /\ id_parsed = <<>>
    /\ en_parsed = <<>>
    /\ en_fm = EMPTY
    /\ id_idx = 0
    /\ en_idx = 0
    /\ new_en_lines = <<>>
    /\ changes_made = FALSE
    /\ matched = <<>>

DropLocals ==
    /\ id_parsed' = <<>>
    /\ en_parsed' = <<>>
    /\ en_fm' = EMPTY
    /\ id_idx' = 0
    /\ en_idx' = 0
    /\ new_en_lines' = <<>>
    /\ changes_made' = FALSE
    /\ matched' = <<>>

locals == <<id_parsed, en_parsed, en_fm, id_idx, en_idx, new_en_lines,
            changes_made, matched>>

\* The state in which no process runs, over file system f, with the command
\* lines cmds still to run.
Idle(f, cmds, flaky) ==
    /\ fs = f
    /\ fs0 = f
    /\ io_may_fail = flaky
    /\ todo = cmds
    /\ pc = "idle"
    /\ tool = "-"
    /\ dry_run = TRUE
    /\ queue = <<>>
    /\ cur = NoFile
    /\ stats = [total |-> 0]
    /\ console = <<>>
    /\ exit_status = 0
    /\ NoLocals
    /\ last_gen = [file |-> NoFile]

\* The user runs the next command line: main up to its for loop
\* (sync_fix.py 247-276, sync_translations.py 287-312).
Invoke ==
    /\ pc = "idle"
    /\ todo # <<>>
    /\ LET cmd == Head(todo)
       IN  /\ tool' = cmd.tool
           /\ dry_run' = IF cmd.tool = "sync_fix"
                         THEN "--apply" \notin Range(cmd.argv)
                         ELSE TRUE
           /\ stats' = IF cmd.tool = "sync_fix"
                       THEN [total |-> 0, updated |-> 0, skipped |-> 0,
                             no_change |-> 0]
                       ELSE [total |-> Len(id_files(fs)), matched |-> 0,
                             missing |-> 0, mismatched |-> 0,
                             reports |-> <<>>, files_with_issues |-> <<>>]
           /\ console' = << <<"MODE", cmd.tool,
                              cmd.tool = "sync_fix"
                                  /\ "--apply" \in Range(cmd.argv)>> >>
    /\ todo' = Tail(todo)
    /\ fs0' = fs
    /\ queue' = id_files(fs)
    /\ pc' = "loop"
    /\ cur' = NoFile
    /\ exit_status' = 0
    /\ last_gen' = [file |-> NoFile]
    /\ DropLocals
    /\ UNCHANGED <<fs, io_may_fail>>

\* An exception nobody catches leaves main: the traceback is printed and the
\* process ends with status 1.
Raise(what) ==
    /\ console' = Append(console, <<"Traceback", what, cur'>>)
    /\ exit_status' = 1
    /\ pc' = "idle"
    /\ queue' = <<>>
    /\ DropLocals

Count(bucket) == [stats EXCEPT ![bucket] = @ + 1]

----
(* sync_fix.py *)

\* The for loop of main takes the next id_file and calls sync_file, whose
\* EN file does not exist (lines 278-284, 146-148, 288-289).
SyncFileSkip ==
    /\ pc = "loop" /\ tool = "sync_fix" /\ queue # <<>>
    /\ LET id_file == Head(queue)
           en_file == EnFile(id_file)
           bucket == FixBucket(FALSE, fs[en_file].exists)
       IN  /\ ~fs[en_file].exists
           /\ cur' = id_file
           /\ console' = console \o << <<"FILE", id_file>>, <<"SKIP", id_file>> >>
           /\ stats' = [stats EXCEPT !.total = @ + 1, ![bucket] = @ + 1]
    /\ queue' = Tail(queue)
    /\ UNCHANGED <<fs, fs0, io_may_fail, todo, pc, tool, dry_run, exit_status,
                   locals, last_gen>>

\* ... or one of the two read_text calls raises (lines 151-152).
SyncFileReadFails ==
    /\ pc = "loop" /\ tool = "sync_fix" /\ queue # <<>>
    /\ io_may_fail
    /\ fs[EnFile(Head(queue))].exists
    /\ cur' = Head(queue)
    /\ stats' = [stats EXCEPT !.total = @ + 1]
    /\ \E which \in {"id_file.read_text", "en_file.read_text"} : Raise(which)
    /\ UNCHANGED <<fs, fs0, io_may_fail, todo, tool, dry_run, last_gen>>

\* ... or both files are read, split and parsed (lines 150-172).
SyncFileParse ==
    /\ pc = "loop" /\ tool = "sync_fix" /\ queue # <<>>
    /\ LET id_file == Head(queue)
           en_file == EnFile(id_file)
       IN  /\ fs[en_file].exists
           /\ LET id_content == fs[IdFile(id_file)].content
                  en_content == fs[en_file].content
                  id_x == extract_frontmatter(id_content)
                  en_x == extract_frontmatter(en_content)
                  id_lines == Split(id_x.body)
                  en_lines == Split(en_x.body)
              IN  /\ en_fm' = en_x.frontmatter
                  /\ id_parsed' = [i \in 1..Len(id_lines) |-> parse_line(id_lines[i])]
                  /\ en_parsed' = [i \in 1..Len(en_lines) |-> parse_line(en_lines[i])]
           /\ cur' = id_file
           /\ console' = Append(console, <<"FILE", id_file>>)
    /\ stats' = [stats EXCEPT !.total = @ + 1]
    /\ queue' = Tail(queue)
    /\ changes_made' = FALSE
    /\ new_en_lines' = <<>>
    /\ matched' = <<>>
    /\ id_idx' = 0
    /\ en_idx' = 0
    /\ pc' = "walk"
    /\ UNCHANGED <<fs, fs0, io_may_fail, todo, tool, dry_run, exit_status, last_gen>>

\* One iteration of the first while loop (lines 174-222)
WalkStep ==
    /\ pc = "walk"
    /\ id_idx < Len(id_parsed) /\ en_idx < Len(en_parsed)
    /\ LET id_item == id_parsed[id_idx + 1]
           en_item == en_parsed[en_idx + 1]
           r == WalkIteration(id_item, en_item)
       IN  /\ new_en_lines' = Append(new_en_lines, r.line)
           /\ changes_made' = (changes_made \/ r.changed)
           /\ id_idx' = IF r.id_advance THEN id_idx + 1 ELSE id_idx
           /\ matched' = Append(matched,
                             IF IsMatchedPair(id_item, en_item)
                             THEN id_idx + 1 ELSE 0)
           /\ console' = IF r.changed /\ en_item.type = "heading"
                         THEN Append(console, <<"FIX Heading level",
                                                en_item.level, id_item.level>>)
                         ELSE console
    /\ en_idx' = en_idx + 1
    /\ UNCHANGED <<fs, fs0, io_may_fail, todo, pc, tool, dry_run, queue, cur,
                   stats, exit_status, id_parsed, en_parsed, en_fm, last_gen>>

\* CopyStep with the append left out.
CopyStepNoAppend ==
    /\ pc = "walk"
    /\ ~(id_idx < Len(id_parsed) /\ en_idx < Len(en_parsed))
    /\ en_idx < Len(en_parsed)
    /\ en_idx' = en_idx + 1
    /\ UNCHANGED <<fs, fs0, io_may_fail, todo, pc, tool, dry_run, queue, cur,
                   stats, console, exit_status, id_parsed, en_parsed, en_fm,
                   id_idx, changes_made, last_gen, new_en_lines, matched>>

\* One iteration of the second while loop (lines 225-227)
CopyStep ==
    /\ pc = "walk"
    /\ ~(id_idx < Len(id_parsed) /\ en_idx < Len(en_parsed))
    /\ en_idx < Len(en_parsed)
    /\ new_en_lines' = Append(new_en_lines, en_parsed[en_idx + 1].original)
    /\ matched' = Append(matched, 0)
    /\ en_idx' = en_idx + 1
    /\ UNCHANGED <<fs, fs0, io_may_fail, todo, pc, tool, dry_run, queue, cur,
                   stats, console, exit_status, id_parsed, en_parsed, en_fm,
                   id_idx, changes_made, last_gen>>

\* The loops are over and nothing is to be written: sync_file returns and
\* main counts the file (lines 229, 240-245, 286-292).
SyncFileReturn ==
    /\ pc = "walk"
    /\ en_idx >= Len(en_parsed)
    /\ ~ShouldWrite(changes_made, dry_run)
    /\ LET bucket == FixBucket(changes_made, fs[EnFile(cur)].exists)
       IN  /\ stats' = Count(bucket)
           /\ console' = Append(console,
                             IF changes_made THEN <<"DRY-RUN", cur>>
                             ELSE <<"OK", cur>>)
    /\ pc' = "loop"
    /\ DropLocals
    /\ UNCHANGED <<fs, fs0, io_may_fail, todo, tool, dry_run, queue, cur,
                   exit_status, last_gen>>

\* The loops are over and the file is to be rewritten (lines 229-232).
SyncFileApply ==
    /\ pc = "walk"
    /\ en_idx >= Len(en_parsed)
    /\ ShouldWrite(changes_made, dry_run)
    /\ pc' = "backup"
    /\ UNCHANGED <<fs, fs0, io_may_fail, todo, tool, dry_run, queue, cur, stats,
                   console, exit_status, locals, last_gen>>

\* shutil.copy2(en_file, backup_path), lines 234-235
Backup ==
    /\ pc = "backup"
    /\ fs' = [fs EXCEPT ![BackupPath(EnFile(cur))] = fs[EnFile(cur)]]
    /\ pc' = "write"
    /\ UNCHANGED <<fs0, io_may_fail, todo, tool, dry_run, queue, cur, stats,
                   console, exit_status, locals, last_gen>>

\* What a write of content over a file may leave when it raises: the file as
\* it was (it could not be opened), or a proper prefix of content.
Interrupted(old, content) ==
    {old} \cup {File(SubSeq(content, 1, k)) : k \in 0..(Len(content) - 1)}

\* copy2 raises: the backup may be left incomplete
BackupFails ==
    /\ pc = "backup"
    /\ io_may_fail
    /\ \E left \in Interrupted(fs[BackupPath(EnFile(cur))], fs[EnFile(cur)].content) :
           fs' = [fs EXCEPT ![BackupPath(EnFile(cur))] = left]
    /\ cur' = cur
    /\ Raise("shutil.copy2")
    /\ UNCHANGED <<fs0, io_may_fail, todo, tool, dry_run, stats>>
    /\ UNCHANGED last_gen

\* en_file.write_text(new_content); sync_file returns True and main counts
\* the file (lines 237-243, 286-287)
Write ==
    /\ pc = "write"
    /\ fs' = [fs EXCEPT ![EnFile(cur)] = File(NewContent(en_fm, new_en_lines))]
    /\ console' = Append(console, <<"UPDATED", cur>>)
    /\ stats' = Count(FixBucket(TRUE, TRUE))
    /\ pc' = "loop"
    /\ DropLocals
    /\ UNCHANGED <<fs0, io_may_fail, todo, tool, dry_run, queue, cur,
                   exit_status, last_gen>>

\* write_text raises: the target may be left truncated
WriteFails ==
    /\ pc = "write"
    /\ io_may_fail
    /\ \E left \in Interrupted(fs[EnFile(cur)], NewContent(en_fm, new_en_lines)) :
           fs' = [fs EXCEPT ![EnFile(cur)] = left]
    /\ cur' = cur
    /\ Raise("en_file.write_text")
    /\ UNCHANGED <<fs0, io_may_fail, todo, tool, dry_run, stats, last_gen>>

\* The for loop is over: the summary, and main returns (lines 294-305).
FixSummary ==
    /\ pc = "loop" /\ tool = "sync_fix" /\ queue = <<>>
    /\ console' = console \o << <<"SUMMARY", stats>> >>
                    \o (IF dry_run /\ stats.updated > 0
                        THEN << <<"To apply changes">> >> ELSE <<>>)
    /\ exit_status' = 0
    /\ pc' = "idle"
    /\ cur' = NoFile
    /\ UNCHANGED <<fs, fs0, io_may_fail, todo, tool, dry_run, queue, stats,
                   locals, last_gen>>

----
(* sync_translations.py *)

\* The for loop of main calls generate_report, one of whose read_text calls
\* raises (lines 227, 233).
GenerateReportReadFails ==
    /\ pc = "loop" /\ tool = "sync_translations" /\ queue # <<>>
    /\ io_may_fail
    /\ cur' = Head(queue)
    /\ \E which \in {"id_file.read_text"}
                      \cup (IF fs[EnFile(Head(queue))].exists
                            THEN {"en_file.read_text"} ELSE {}) :
           Raise(which)
    /\ UNCHANGED <<fs, fs0, io_may_fail, todo, tool, dry_run, stats, last_gen>>

\* ... or the EN file does not exist (lines 229-231, 324-328).
GenerateReportMissing ==
    /\ pc = "loop" /\ tool = "sync_translations" /\ queue # <<>>
    /\ LET id_file == Head(queue)
           en_file == EnFile(id_file)
           report == << <<"MISSING", id_file>> >>
           has_issues == TRUE
           bucket == ReportBucket(has_issues, fs[en_file].exists)
       IN  /\ ~fs[en_file].exists
           /\ cur' = id_file
           /\ last_gen' = [file |-> id_file, report |-> report,
                           has_issues |-> has_issues]
           /\ stats' = [stats EXCEPT
                           ![bucket] = @ + 1,
                           !.reports = Append(@, report),
                           !.files_with_issues =
                               IF bucket = "matched" THEN @ ELSE Append(@, id_file)]
    /\ queue' = Tail(queue)
    /\ UNCHANGED <<fs, fs0, io_may_fail, todo, pc, tool, dry_run, console,
                   exit_status, locals>>

\* ... or both files are read, analysed and compared (lines 226-285,
\* 323-333).
GenerateReport ==
    /\ pc = "loop" /\ tool = "sync_translations" /\ queue # <<>>
    /\ LET id_file == Head(queue)
           en_file == EnFile(id_file)
       IN  /\ fs[en_file].exists
           /\ LET id_x == extract_frontmatter(fs[IdFile(id_file)].content)
                  en_x == extract_frontmatter(fs[en_file].content)
                  id_structure == analyze_structure(id_x.body)
                  en_structure == analyze_structure(en_x.body)
                  r == ReportOf(id_structure, en_structure)
                  report == << <<"FILE", id_file>> >> \o r.lines
                  bucket == ReportBucket(r.has_issues, fs[en_file].exists)
              IN  /\ last_gen' = [file |-> id_file,
                                  id_structure |-> id_structure,
                                  en_structure |-> en_structure,
                                  report |-> report,
                                  has_issues |-> r.has_issues]
                  /\ stats' = [stats EXCEPT
                                  ![bucket] = @ + 1,
                                  !.reports = Append(@, report),
                                  !.files_with_issues =
                                      IF bucket = "matched" THEN @
                                      ELSE Append(@, id_file)]
           /\ cur' = id_file
    /\ queue' = Tail(queue)
    /\ UNCHANGED <<fs, fs0, io_may_fail, todo, pc, tool, dry_run, console,
                   exit_status, locals>>

\* The for loop is over: the reports and the summary are printed, and main
\* returns (lines 335-354).
ReportSummary ==
    /\ pc = "loop" /\ tool = "sync_translations" /\ queue = <<>>
    /\ console' = console \o stats.reports
                    \o << <<"SUMMARY", [b \in {"total", "matched", "mismatched",
                                              "missing"} |-> stats[b]]>> >>
                    \o (IF stats.files_with_issues # <<>>
                        THEN << <<"files need attention",
                                  stats.files_with_issues>> >>
                        ELSE << <<"All files are properly aligned!">> >>)
    /\ exit_status' = 0
    /\ pc' = "idle"
    /\ cur' = NoFile
    /\ UNCHANGED <<fs, fs0, io_may_fail, todo, tool, dry_run, queue, stats,
                   locals, last_gen>>

-----------------------------------------------------------------------------
(* The specifications                                                      *)

Next ==
    \/ Invoke
    \/ SyncFileSkip
    \/ SyncFileReadFails
    \/ SyncFileParse
    \/ WalkStep
    \/ CopyStep
    \/ SyncFileReturn
    \/ SyncFileApply
    \/ Backup
    \/ BackupFails
    \/ Write
    \/ WriteFails
    \/ FixSummary
    \/ GenerateReportReadFails
    \/ GenerateReportMissing
    \/ GenerateReport
    \/ ReportSummary

\* Strings as sequences of characters
H1 == <<"#", " ", "a">>
H2 == <<"#", "#", " ", "a">>
B0 == <<"-", " ", "a">>
B1 == <<" ", "-", " ", "a">>
N0 == <<"1", ".", " ", "a">>
N1 == <<" ", "1", ".", " ", "a">>
NT == <<TAB, "1", ".", " ", "a">>

\* The sequences of 1..n elements of S
SeqsUpTo(S, n) == UNION {[1..k -> S] : k \in 1..n}
\* The strings of at most n characters of A
Strings(A, n) == UNION {[1..k -> A] : k \in 0..n}

\* The file system that holds the given files and nothing else
FileSystem(files) ==
    [p \in AllPaths |-> IF p \in DOMAIN files THEN files[p] ELSE Absent]

OnePair(name, id_content, en_content) ==
    FileSystem(IdFile(name) :> File(id_content) @@ EnFile(name) :> File(en_content))

----
(* Spec: whole runs over a tree of up to three small source files, two of  *)
(* which map to the same target; targets may be missing, I/O may fail.     *)

RunIdContents == {Absent, File(H1), File(H2)}
RunEnContents == {Absent, File(H1), File(H2 \o <<NL>>)}
RunTodos == {<<Report>>, <<FixDry>>, <<FixOther>>, <<FixApply>>,
             <<FixApply, FixApply>>}

RunFileSystems ==
    {FileSystem([p \in {IdFile(n) : n \in Range(IdNames)} |-> ic[p.name]]
                    @@ [p \in {EnFile(n) : n \in Range(IdNames)} |-> ec[p.name]]) :
        ic \in [Range(IdNames) -> RunIdContents],
        ec \in [{get_en_path(n) : n \in Range(IdNames)} -> RunEnContents]}

InitRun == \E f \in RunFileSystems, cmds \in RunTodos : Idle(f, cmds, TRUE)

Init == InitRun

Spec == Init /\ [][Next]_vars

----
(* SpecDoc: one source file and its target, each a document of a few lines *)
(* out of a set of line shapes; the report, then the fixer twice.          *)

MaxIdLines == 2
MaxEnLines == 3

DocLines == {EMPTY, H1, H2, B0}
DocTodo == <<Report, FixApply, FixApply>>

\* Front matter and code fences
MarkLines == {DELIM, <<" ">> \o DELIM, FENCE, H2}
MarkIdDocs == {<<H1>>, <<DELIM, DELIM, H1>>, <<FENCE, H1, FENCE>>}

DocFileSystems ==
    {OnePair("faq", Join(id_doc), Join(en_doc)) :
        id_doc \in SeqsUpTo(DocLines, MaxIdLines),
        en_doc \in SeqsUpTo(DocLines, MaxEnLines)}
    \cup
    {OnePair("faq", Join(id_doc), Join(en_doc)) :
        id_doc \in MarkIdDocs,
        en_doc \in SeqsUpTo(MarkLines, MaxEnLines)}

InitDoc ==
    \/ \E f \in DocFileSystems : Idle(f, DocTodo, FALSE)
    \/ InitRun

SpecDoc == InitDoc /\ [][Next]_vars

----
(* SpecLine: sync_file at its first while loop (line 174), over a source   *)
(* body of one line and a target body of one line of any characters.       *)

MaxLineLen == 4

LineAlphabet == {"#", " ", TAB, "1", ".", "-", "a"}
SourceLines == {H1, H2, B0, B1, N0, N1, NT}

InitLine ==
    \E s \in SourceLines, t \in Strings(LineAlphabet, MaxLineLen) :
        /\ fs = OnePair("faq", s, t)
        /\ fs0 = fs
        /\ io_may_fail = FALSE
        /\ todo = <<>>
        /\ pc = "walk"
        /\ tool = "sync_fix"
        /\ dry_run = FALSE
        /\ queue = <<>>
        /\ cur = "faq"
        /\ stats = [total |-> 1, updated |-> 0, skipped |-> 0, no_change |-> 0]
        /\ console = << <<"MODE", "sync_fix", TRUE>>, <<"FILE", "faq">> >>
        /\ exit_status = 0
        /\ id_parsed = <<parse_line(s)>>
        /\ en_parsed = <<parse_line(t)>>
        /\ en_fm = EMPTY
        /\ id_idx = 0
        /\ en_idx = 0
        /\ new_en_lines = <<>>
        /\ changes_made = FALSE
        /\ matched = <<>>
        /\ last_gen = [file |-> NoFile]

NextLine == WalkStep

SpecLine == InitLine /\ [][NextLine]_vars

-----------------------------------------------------------------------------
(* Properties                                                              *)

Structural == {"heading", "numbered_list", "bullet_list"}

\* What the walk compares in a structural record
Depth(r) == IF r.type = "heading" THEN r.level ELSE r.indent

\* The list number or bullet glyph of a record, if it has one
Marker(r) ==
    IF r.type = "numbered_list" THEN r.number
    ELSE IF r.type = "bullet_list" THEN <<r.bullet>>
    ELSE EMPTY

\* sync_file's locals are live
InSyncFile == pc \in {"walk", "backup", "write"}

\* Both while loops of sync_file are over
WalkOver == InSyncFile /\ en_idx >= Len(en_parsed)

\* A process ran to the end of main
Completed == pc = "idle" /\ tool # "-" /\ exit_status = 0

\* cur is the only source file that maps to its target
OwnTarget == \A n \in Range(IdNames) : n # cur => EnFile(n) # EnFile(cur)

IsFenceLine(line) == StartsWith(Strip(line), FENCE)

\* Line k of lines lies between an opening fence line and the closing fence
\* line that matches it.
InFence(lines, k) ==
    /\ ~IsFenceLine(lines[k])
    /\ Cardinality({j \in 1..(k - 1) : IsFenceLine(lines[j])}) % 2 = 1
    /\ \E j \in (k + 1)..Len(lines) : IsFenceLine(lines[j])

\* The positions of the structural records of a parsed body, in order
StructuralAt(parsed) ==
    SelectSeq([i \in 1..Len(parsed) |-> i], LAMBDA i : parsed[i].type \in Structural)

----
----
\* C2: once sync_file has rewritten a target in apply mode, sync_file on the
\* rewritten target with the same source changes no line and reports no
\* update; and a pair whose matched records all agree is left unchanged.
C2_FixIsIdempotent ==
    /\ (InSyncFile /\ ~dry_run /\ ~io_may_fail /\ OwnTarget
            /\ fs0[BackupPath(EnFile(cur))].exists)
        => (~changes_made
            /\ \A k \in 1..Len(new_en_lines) :
                   new_en_lines[k] = en_parsed[k].original)
    /\ (WalkOver /\ \A k \in 1..Len(matched) :
                        matched[k] # 0 =>
                            Depth(id_parsed[matched[k]]) = Depth(en_parsed[k]))
        => (~changes_made
            /\ new_en_lines = [k \in 1..Len(en_parsed) |-> en_parsed[k].original])

----
\* C3: a heading- or list-shaped line between an opening fence line and its
\* closing fence line is code_block_content for analyze_structure, and
\* sync_file neither pairs it with a source record nor rewrites it.
C3_FenceIsOpaque ==
    /\ (last_gen.file # NoFile /\ fs[EnFile(last_gen.file)].exists) =>
           LET lines == Split(extract_frontmatter(
                                  fs[EnFile(last_gen.file)].content).body)
           IN  \A k \in 1..Len(lines) :
                   (InFence(lines, k) /\ parse_line(lines[k]).type \in Structural)
                       => last_gen.en_structure[k].type = "code_block_content"
    /\ InSyncFile =>
           LET lines == [k \in 1..Len(en_parsed) |-> en_parsed[k].original]
           IN  \A k \in 1..Len(new_en_lines) :
                   (InFence(lines, k) /\ en_parsed[k].type \in Structural)
                       => (matched[k] = 0 /\ new_en_lines[k] = lines[k])

----
\* C4: the file fix mode writes has the lines of the original target, front
\* matter included, except for the rewritten heading/list lines: no line is
\* added or removed; and the parsed body holds no line of a well-formed
\* front-matter block.
C4_OnlyRewrittenLinesChange ==
    /\ \A n \in Range(IdNames) :
           LET e == EnFile(n)
           IN  (Completed /\ ~io_may_fail /\ fs[e].exists /\ fs0[e].exists
                    /\ fs[e] # fs0[e] /\ \A m \in Range(IdNames) : m # n => EnFile(m) # e)
               => LET new == Split(fs[e].content)
                      old == Split(fs0[e].content)
                  IN  /\ Len(new) = Len(old)
                      /\ \A i \in 1..Len(old) :
                             new[i] # old[i] =>
                                 /\ parse_line(old[i]).type \in Structural
                                 /\ parse_line(new[i]).type = parse_line(old[i]).type
                                 /\ parse_line(new[i]).text = parse_line(old[i]).text
    /\ InSyncFile =>
           LET lines == Split(fs[EnFile(cur)].content)
               closing == {i \in 2..Len(lines) : Strip(lines[i]) = DELIM}
           IN  (Strip(lines[1]) = DELIM /\ closing # {}) =>
                   LET c == CHOOSE i \in closing : \A j \in closing : i <= j
                   IN  [k \in 1..Len(en_parsed) |-> en_parsed[k].original]
                           = Split(Join(Drop(lines, c)))

----
\* C5: the parsers return one record per body line, in order, and the
\* reconciled body has one line per target line: the target's own line
\* unless it was matched with a source record of another level/indent.
C5_OneRecordPerLine ==
    /\ InSyncFile =>
           LET id_lines == Split(extract_frontmatter(
                                     fs[IdFile(cur)].content).body)
               en_lines == Split(extract_frontmatter(
                                     fs[EnFile(cur)].content).body)
           IN  /\ Len(id_parsed) = Len(id_lines)
               /\ Len(en_parsed) = Len(en_lines)
               /\ \A i \in 1..Len(id_lines) : id_parsed[i].original = id_lines[i]
               /\ \A i \in 1..Len(en_lines) : en_parsed[i].original = en_lines[i]
               /\ Len(new_en_lines) = en_idx
               /\ en_idx <= Len(en_lines)
               /\ pc \in {"backup", "write"} => Len(new_en_lines) = Len(en_lines)
               /\ \A k \in 1..Len(new_en_lines) :
                      new_en_lines[k] # en_lines[k] =>
                          /\ matched[k] # 0
                          /\ Depth(id_parsed[matched[k]]) # Depth(en_parsed[k])
    /\ (last_gen.file # NoFile /\ fs[EnFile(last_gen.file)].exists) =>
           LET id_lines == Split(extract_frontmatter(
                                     fs[IdFile(last_gen.file)].content).body)
               en_lines == Split(extract_frontmatter(
                                     fs[EnFile(last_gen.file)].content).body)
           IN  /\ Len(last_gen.id_structure) = Len(id_lines)
               /\ Len(last_gen.en_structure) = Len(en_lines)
               /\ \A i \in 1..Len(id_lines) :
                      /\ last_gen.id_structure[i].line = i - 1
                      /\ last_gen.id_structure[i].content = id_lines[i]
               /\ \A i \in 1..Len(en_lines) :
                      /\ last_gen.en_structure[i].line = i - 1
                      /\ last_gen.en_structure[i].content = en_lines[i]

\* The source ran out first: after a rewritten line, the remaining target lines
\* were copied through and the file is about to be written.
C5_Witness ==
    /\ pc = "write"
    /\ Len(en_parsed) = 3
    /\ id_idx = Len(id_parsed)
    /\ matched[1] # 0
    /\ new_en_lines[1] # en_parsed[1].original
    /\ matched[3] = 0
    /\ new_en_lines[3] = en_parsed[3].original

----
\* C6: a target is overwritten only in a run with --apply whose walk changed
\* a line, and only when its backup holds exactly the target's content; a
\* failed backup copy leaves the target as it was; without --apply no file
\* is created or modified.
C6_BackupBeforeOverwrite ==
    [][/\ \A n \in Range(IdNames) :
              LET e == EnFile(n)
              IN  fs'[e] # fs[e] =>
                      /\ tool = "sync_fix" /\ ~dry_run
                      /\ e = EnFile(cur)
                      /\ changes_made
                      /\ \E k \in 1..Len(new_en_lines) :
                             new_en_lines[k] # en_parsed[k].original
                      /\ fs[BackupPath(e)] = fs[e]
       /\ (pc = "backup" /\ pc' # "write") => fs'[EnFile(cur)] = fs[EnFile(cur)]
       /\ dry_run => fs' = fs
      ]_vars

\* A target has been overwritten and its backup holds what it held before.
C6_Witness ==
    /\ pc = "loop"
    /\ tool = "sync_fix"
    /\ cur # NoFile
    /\ fs[EnFile(cur)] # fs0[EnFile(cur)]
    /\ fs[BackupPath(EnFile(cur))] = fs0[EnFile(cur)]
    /\ stats.updated = 1

----
\* The id_files main has been through
Visited ==
    LET all == id_files(fs0)
    IN  SubSeq(all, 1, Len(all) - Len(queue))

MissingAmong(names) ==
    Cardinality({i \in 1..Len(names) : ~fs0[EnFile(names[i])].exists})

Said(tag, name) ==
    Cardinality({i \in 1..Len(console) : console[i] = <<tag, name>>})

\* C7: a source file whose target does not exist is counted once, as skipped
\* (fixer) or missing (reporter), and in no other bucket; it is reported once;
\* no file is created for it; and the run goes on to the remaining files.
C7_MissingTargetCountedOnce ==
    (pc = "loop" \/ Completed) =>
        /\ tool = "sync_fix" =>
               /\ stats.skipped = MissingAmong(Visited)
               /\ stats.updated + stats.no_change = Len(Visited) - stats.skipped
               /\ stats.total = Len(Visited)
               /\ \A i \in 1..Len(Visited) :
                      Said("SKIP", Visited[i])
                          = IF fs0[EnFile(Visited[i])].exists THEN 0 ELSE 1
        /\ tool = "sync_translations" =>
               /\ stats.missing = MissingAmong(Visited)
               /\ stats.matched + stats.mismatched = Len(Visited) - stats.missing
               /\ Len(stats.reports) = Len(Visited)
               /\ \A i \in 1..Len(Visited) :
                      (stats.reports[i] = << <<"MISSING", Visited[i]>> >>)
                          <=> ~fs0[EnFile(Visited[i])].exists
        /\ \A i \in 1..Len(Visited) :
               ~fs0[EnFile(Visited[i])].exists =>
                   /\ ~fs[EnFile(Visited[i])].exists
                   /\ ~fs[BackupPath(EnFile(Visited[i]))].exists
        /\ Completed => Len(Visited) = Len(id_files(fs0))

\* A run of the fixer ended after a file was skipped for its missing target and
\* a later file was updated.
C7_Witness ==
    /\ Completed
    /\ tool = "sync_fix"
    /\ stats.total = 3
    /\ stats.skipped = 1
    /\ stats.updated = 1
    /\ ~fs0[EnFile("faq")].exists
    /\ fs[EnFile("penugasan")] # fs0[EnFile("penugasan")]

----
\* C8: a failed read, backup copy or write of one file does not end the run:
\* it is reported, every later file is processed, the summary is printed
\* and the exit status is zero.
C8_FailureDoesNotAbort ==
    /\ exit_status = 0
    /\ (pc = "idle" /\ tool # "-") =>
           /\ console[Len(console)][1] # "Traceback"
           /\ \E i \in 1..Len(console) : console[i][1] = "SUMMARY"

----
\* C9: for a target whose first line is a front-matter delimiter that no later
\* line closes, extract_frontmatter gives an empty body: sync_file parses a
\* single empty line.
C9_UnclosedFrontMatterHasNoBody ==
    InSyncFile =>
        LET lines == Split(fs[EnFile(cur)].content)
        IN  (Strip(lines[1]) = DELIM
                /\ \A i \in 2..Len(lines) : Strip(lines[i]) # DELIM)
            => /\ en_parsed = <<parse_line(EMPTY)>>
               /\ Len(Split(en_fm)) = Len(lines)

----
\* C10: when the source and target bodies have the same sequence of structural
\* kinds once plain lines are ignored, then after the walk the k-th structural
\* line of the output has the level/indent of the k-th structural record of
\* the source.
C10_PlainLinesKeepAlignment ==
    WalkOver =>
        LET s == StructuralAt(id_parsed)
            t == StructuralAt(en_parsed)
        IN  (/\ Len(s) = Len(t)
             /\ \A k \in 1..Len(s) : id_parsed[s[k]].type = en_parsed[t[k]].type)
            => \A k \in 1..Len(t) :
                   Depth(parse_line(new_en_lines[t[k]])) = Depth(id_parsed[s[k]])

----
\* What report mode prints for the pair of cur, as generate_report computes
\* it from the files as they are now
ReportNow ==
    ReportOf(analyze_structure(extract_frontmatter(fs[IdFile(cur)].content).body),
             analyze_structure(extract_frontmatter(fs[EnFile(cur)].content).body))

\* The report has a heading level warning or a list indentation warning
DepthWarning(report_lines) ==
    \E i \in 1..Len(report_lines) :
        report_lines[i][1] \in {"WARNING Heading level mismatch",
                                "WARNING different indentation"}

\* C11: report mode shows a heading level warning or a list indentation
\* warning for a pair of files if and only if fix mode's walk over the same
\* pair rewrote a line.
C11_ReportWarnsIffFixChanges ==
    (pc = "walk" /\ en_idx >= Len(en_parsed)) =>
        (DepthWarning(ReportNow.lines) <=> changes_made)

----
\* SpecDoc, in which a sync_file that has entered its loops goes on running
SpecDocFair == SpecDoc /\ WF_vars(WalkStep \/ CopyStep)

\* The walk has a current source record and a current target record, of the
\* same kind
SameKind ==
    /\ id_idx < Len(id_parsed)
    /\ en_idx < Len(en_parsed)
    /\ id_parsed[id_idx + 1].type = en_parsed[en_idx + 1].type

\* C12: the walk is one forward pass. Every step of either loop advances the
\* target cursor by one, and the source cursor by one exactly when the current
\* records have the same kind; the cursors start at 0 and stay within the
\* bodies, the source cursor never ahead of the target cursor; the steps taken
\* are as many as the target cursor, sync_file leaves its loops only after
\* len(target body) steps, and it does leave them.
C12_SingleForwardPass ==
    /\ [](pc = "walk" =>
              /\ 0 <= id_idx /\ id_idx <= en_idx
              /\ id_idx <= Len(id_parsed)
              /\ en_idx <= Len(en_parsed)
              /\ Len(matched) = en_idx
              /\ Len(new_en_lines) = en_idx)
    /\ [][/\ (pc # "walk" /\ pc' = "walk") => (id_idx' = 0 /\ en_idx' = 0)
          /\ (pc = "walk" /\ pc' = "walk") =>
                 /\ en_idx' = en_idx + 1
                 /\ id_idx' = IF SameKind THEN id_idx + 1 ELSE id_idx
                 /\ id_parsed' = id_parsed /\ en_parsed' = en_parsed
          /\ (pc = "walk" /\ pc' # "walk") => Len(matched) = Len(en_parsed)
         ]_vars
    /\ (pc = "walk") ~> (pc = "walk" /\ en_idx = Len(en_parsed))

\* The walk is over after three steps: one in which the source cursor stayed,
\* one in which both cursors advanced, and one of copy-through.
C12_Witness ==
    /\ pc = "walk"
    /\ Len(id_parsed) = 1 /\ id_idx = 1
    /\ Len(en_parsed) = 3 /\ en_idx = 3
    /\ matched = <<0, 1, 0>>

====
